---- MODULE Spec2Model ----
(***************************************************************************)
(* Model of the appsec acquisition datasource                             *)
(* (pkg/acquisition/modules/appsec/appsec.go): the HTTP handler with its   *)
(* API-key cache, the hand-off of parsed requests to the runners over the  *)
(* unbuffered InChan, the per-request ResponseChannel, and the shutdown    *)
(* sequence of StreamingAcquisition.                                       *)
(*                                                                         *)
(* The body of AppsecRunner.Run and the construction of ParsedRequest are  *)
(* not part of the sources at hand; their steps are taken from the design  *)
(* description (sections 3, 4.4 and 5) and are marked "design" below.      *)
(***************************************************************************)
EXTENDS Integers, Sequences, FiniteSets, TLC

(* ---- bounds ---------------------------------------------------------- *)
MaxRequests == 2        \* HTTP requests that arrive in one behaviour
MaxAuthRequests == 2    \* the same, where the API keys and the clock vary
Routines    == 1        \* w.config.Routines: number of runners
MaxConfigRoutines == 2  \* largest value of the key routines
MaxDecisions == 513     \* longest list of decisions
MaxDepth    == 4        \* calls the stack holds, far fewer than in a real run
MaxGoroutines == 2      \* handler goroutines that use the AuthCache at once
MaxRows     == 2        \* rows of the decisions table a query runs on
MaxParams   == 2        \* parameters in the filter of a query
MaxTime     == 2        \* the clock runs over 0..MaxTime

(* ---- configuration and program constants ----------------------------- *)
decisionDeleteBulkSize == 256
AuthCacheDuration == 1  \* *w.config.AuthCacheDuration, in clock units
InChanCapBuffered == Routines  \* a channel with one slot per runner
InChanCap         == 0  \* make(chan appsec.ParsedRequest): unbuffered
ResponseChannelCap == 1 \* design: reply channel of capacity 1

Largest(S) == CHOOSE n \in S : \A m \in S : m <= n
LoadRequests == 1..(2 * Routines + 1)     \* 2N+1 requests for N runners
Requests == 1..Largest({MaxRequests, MaxAuthRequests, 2 * Routines + 1})
SomeRequests == 1..MaxRequests
AuthRequests == 1..MaxAuthRequests
Runners  == 1..Routines
APIKeys  == {"k1", "k2"}            \* non-empty X-Api-Key values
Headers  == APIKeys \cup {""}       \* "" is r.Header.Get on a missing header

StatusOK                  == 200
StatusUnauthorized        == 401
StatusForbidden           == 403
StatusInternalServerError == 500

VARIABLES
    pc,           \* pc[h]: position of the handler task of request h
    key,          \* key[h]: apiKey read by the handler
    status,       \* status[h]: status written by rw.WriteHeader, 0 before
    did,          \* did[h]: what has happened for request h so far
    respChan,     \* respChan[h]: parsedRequest.ResponseChannel (buffer)
    blocks,       \* AppsecBlockCounter
    now,          \* time.Now()
    cache,        \* w.AuthCache.APIKeys: a map, DOMAIN cache = stored keys
    inChan,       \* w.InChan: buffered requests (none when unbuffered)
    rpc,          \* rpc[r]: position of runner r
    cur,          \* cur[r]: the request runner r is working on, if any
    events,       \* requests for which an event reached outChan
    trapped,      \* runners that have recovered from a panic
    runtimeResponse, \* runtimeResponse[r]: the response held in r's runtime
    dying,        \* t.Dying() is closed
    sup,          \* position of the StreamingAcquisition goroutine
    lst,          \* lst[l]: position of the task of listener l
    reason,       \* what killed the tomb
    inChanClosed, \* w.InChan has been closed
    disposition,  \* disposition of the phase under evaluation
    matched,      \* dispositions of the rules that matched, in match order
    evalpc,       \* position of the evaluation of the phase
    overridden,   \* a PostEval hook has set the disposition directly
    yaml,         \* the configuration file as given
    config,       \* w.config
    boot,         \* how far the datasource has come: Configure, start
    nrunners,     \* len(w.AppsecRunners)
    tasks,        \* runner tasks started by StreamingAcquisition
    removed,      \* os.RemoveAll was called on the socket path
    configErr,    \* the step of Configure that returned an error, if any
    onLoadRuns,   \* times the on-load rules have run on w.AppsecRuntime
    AppsecRunners,\* w.AppsecRunners
    started,      \* the runner values the runner tasks were started with
    op,           \* the function called on the decisions: expire or delete
    ndec,         \* len(decisions) of the outermost call
    table,        \* ids of the decisions in the database
    expiredIds,   \* ids of the decisions whose until was set to now
    calls,        \* the stack of the calls in progress, outermost first
    result,       \* what the outermost call returned, once it has
    dbpc,         \* the call is running, done, or out of stack
    maxBulk,      \* most ids given to one statement so far
    mu,           \* ac.mu: the goroutines holding the read and the write lock
    gpc,          \* gpc[g]: where goroutine g is in its authentication
    gkey,         \* gkey[g]: the key of the request g is serving
    gres,          \* gres[g]: what g's last AuthCache.Get returned
    lastSet,      \* lastSet[k]: expiration of the last Set(k) that completed
    store,        \* the decisions table a query runs on: id -> row
    filter,       \* the filter map given to the query: parameter -> value
    qpc,          \* a query is about to be called, or has returned
    qres          \* what the query returned

vars == <<pc, key, status, did, respChan, blocks, now, cache, inChan, rpc, cur,
          events, trapped, runtimeResponse, dying, sup, lst, reason, inChanClosed,
          disposition, matched, evalpc, overridden,
          yaml, config, boot, nrunners, tasks, removed,
          configErr, onLoadRuns, AppsecRunners, started,
          op, ndec, table, expiredIds, calls, result, dbpc, maxBulk,
          mu, gpc, gkey, gres, lastSet, store, filter, qpc, qres>>

hvars == <<pc, key, status, did, respChan, blocks>>
rvars == <<rpc, cur, events, trapped, runtimeResponse>>
evars == <<disposition, matched, evalpc, overridden>>
cvars == <<yaml, config, boot, nrunners, tasks, removed,
           configErr, onLoadRuns, AppsecRunners, started>>
dvars == <<op, ndec, table, expiredIds, calls, result, dbpc, maxBulk>>
lvars == <<mu, gpc, gkey, gres, lastSet>>
qvars == <<store, filter, qpc, qres>>
ovars == <<evars, cvars, dvars, lvars, qvars>>
svars == <<dying, sup, lst, reason, inChanClosed, ovars>>
avars == <<hvars, now, cache, inChan, rvars, dying, sup, lst, reason,
           inChanClosed>>


\* the two listener tasks of StreamingAcquisition
Listeners == {"unix", "tcp"}

\* a listener of w.server accepts connections
listening == \E l \in Listeners : lst[l] = "serving"

(* ---- AuthCache (appsec.go:66-89) -------------------------------------- *)
\* make(map[string]time.Time, 0)
NewAuthCache == [k \in {} |-> 0]

\* ac.APIKeys[apiKey] = expiration
Set(c, apiKey, expiration) ==
    [k \in (DOMAIN c) \cup {apiKey} |->
        IF k = apiKey THEN expiration ELSE c[k]]

\* expiration, exists := ac.APIKeys[apiKey]; a missing key reads the zero time
Get(c, apiKey) ==
    [exists     |-> apiKey \in DOMAIN c,
     expiration |-> IF apiKey \in DOMAIN c THEN c[apiKey] ELSE 0]

(* ---- appsecHandler, authentication part (appsec.go:341-360) ----------- *)
\* an expiration that is reached counts as passed
AfterOrEqual(t, u) == t >= u

\* t.After(u)
After(t, u) == t > u

\* the check for a missing key left out
MissingKeyIgnored(apiKey) == FALSE

\* if apiKey == ""
MissingKey(apiKey) == apiKey = ""

\* && in place of ||
NeedsProbeBoth(c, apiKey, t) ==
    LET g == Get(c, apiKey) IN (~g.exists) /\ After(t, g.expiration)

\* if !exists || time.Now().After(expiration)
NeedsProbe(c, apiKey, t) ==
    LET g == Get(c, apiKey) IN (~g.exists) \/ After(t, g.expiration)

\* the answer of the probe is stored whatever it is
CacheAfterProbeAlways(c, apiKey, ok, t) ==
    Set(c, apiKey, IF ok THEN t + AuthCacheDuration ELSE t)

\* the cache after IsAuth returned ok at time t: only a valid key is stored
CacheAfterProbe(c, apiKey, ok, t) ==
    IF ok THEN Set(c, apiKey, t + AuthCacheDuration) ELSE c

\* a positive entry for apiKey whose expiration has not passed at time t
Unexpired(c, apiKey, t) == apiKey \in DOMAIN c /\ t <= c[apiKey]

\* variant: the request is counted before it is parsed
CountedBeforeParse(parseOk) == {"count"}

\* appsec.go:376: AppsecReqCounter is incremented once the request has
\* been parsed, and not for a request whose parse failed
Counted(parseOk) == IF parseOk THEN {"count"} ELSE {}

\* appsec.go:362-378: parse the request, count it, send it on InChan.
\* The send completes at once when the channel has room in its buffer;
\* otherwise the handler blocks at "send" until a runner receives.
AfterAuth(h, flags, parseOk) ==
    IF ~parseOk
    THEN /\ pc' = [pc EXCEPT ![h] = "done"]
         /\ status' = [status EXCEPT ![h] = StatusInternalServerError]
         /\ did' = [did EXCEPT ![h] = @ \cup flags \cup Counted(parseOk)]
         /\ inChan' = inChan
    ELSE IF Len(inChan) < InChanCap
    THEN /\ pc' = [pc EXCEPT ![h] = "wait"]
         /\ did' = [did EXCEPT ![h] =
                       @ \cup flags \cup Counted(parseOk) \cup {"enq"}]
         /\ inChan' = Append(inChan, h)
         /\ status' = status
    ELSE /\ pc' = [pc EXCEPT ![h] = "send"]
         /\ did' = [did EXCEPT ![h] = @ \cup flags \cup Counted(parseOk)]
         /\ inChan' = inChan
         /\ status' = status

\* requests are numbered in their order of arrival
NextToArrive(h) == \A g \in Requests : g < h => pc[g] # "idle"

\* appsec.go:338-360: a request arrives; headers are read, the cache is
\* looked up, and either the request is refused, or IsAuth is called, or
\* the handler goes on to parse and send.
HandlerAccept(h, apiKey, parseOk) ==
    /\ pc[h] = "idle"
    /\ NextToArrive(h)
    /\ listening
    /\ key' = [key EXCEPT ![h] = apiKey]
    /\ IF MissingKey(apiKey)
       THEN /\ pc' = [pc EXCEPT ![h] = "done"]
            /\ status' = [status EXCEPT ![h] = StatusUnauthorized]
            /\ UNCHANGED <<did, inChan>>
       ELSE LET seen == {"get"}
                        \cup (IF Unexpired(cache, apiKey, now) THEN {"hit"} ELSE {})
                        \cup (IF apiKey \in DOMAIN cache /\ now > cache[apiKey]
                              THEN {"stale"} ELSE {})
            IN IF NeedsProbe(cache, apiKey, now)
               THEN /\ pc' = [pc EXCEPT ![h] = "probe"]
                    /\ did' = [did EXCEPT ![h] = @ \cup seen \cup {"probe"}]
                    /\ UNCHANGED <<status, inChan>>
               ELSE AfterAuth(h, seen, parseOk)
    /\ UNCHANGED <<respChan, blocks, now, cache, rvars, svars>>

\* appsec.go:352-360 with IsAuth (315-335): the HEAD request returns; ok is
\* false on a transport error, a timeout or a status other than 200.
HandlerProbeReturn(h, ok, parseOk) ==
    /\ pc[h] = "probe"
    /\ cache' = CacheAfterProbe(cache, key[h], ok, now)
    /\ IF ~ok
       THEN /\ pc' = [pc EXCEPT ![h] = "done"]
            /\ status' = [status EXCEPT ![h] = StatusUnauthorized]
            /\ did' = [did EXCEPT ![h] = @ \cup {"probe_failed"}]
            /\ UNCHANGED inChan
       ELSE AfterAuth(h, {"probe_ok", "set"}, parseOk)
    /\ UNCHANGED <<key, respChan, blocks, now, rvars, svars>>

\* a receive that does not wait for the runner
CanReceiveNonBlocking(ch) == TRUE

\* response := <-parsedRequest.ResponseChannel blocks until a value is there
CanReceive(ch) == Len(ch) > 0

\* variant: every answer other than a 200 counts as a block
CountsBlockOnStatus(response) == response.code # StatusOK

\* appsec.go:386: if response.InBandInterrupt
CountsBlock(response) == response.InBandInterrupt

\* the response a runner's runtime holds for request h at this moment, if
\* a runner still holds one for h; else the value that was sent
Live(h, sent) ==
    IF \E r \in Runners : runtimeResponse[r].req = h
    THEN runtimeResponse[CHOOSE r \in Runners : runtimeResponse[r].req = h].v
    ELSE sent

\* variant: the channel hands over the runner's own response, not a copy
ReceivedByReference(sent, live) == live

\* appsec.go:380-384: the value received from the ResponseChannel is a
\* copy of the runtime's response, made when it was sent
Received(sent, live) == sent

\* appsec.go:384-400: receive the verdict, count a block, write the answer
HandlerReceive(h) ==
    /\ pc[h] = "wait"
    /\ CanReceive(respChan[h])
    /\ LET got      == Len(respChan[h]) > 0
           response == IF got
                       THEN Received(Head(respChan[h]),
                                     Live(h, Head(respChan[h])))
                       ELSE [InBandInterrupt |-> FALSE, code |-> StatusOK,
                             action |-> "allow"]
       IN /\ respChan' = [respChan EXCEPT ![h] = IF got THEN Tail(@) ELSE @]
          /\ status' = [status EXCEPT ![h] = response.code]
          /\ did' = [did EXCEPT ![h] =
                        @ \cup (IF got THEN {"recv"} ELSE {})
                          \cup (IF CountsBlock(response) THEN {"block"} ELSE {})
                          \cup (IF response.action = "deny"
                                THEN {"body_deny"} ELSE {})
                          \cup {"written"}]
          /\ blocks' = IF CountsBlock(response) THEN blocks + 1 ELSE blocks
    /\ pc' = [pc EXCEPT ![h] = "done"]
    /\ UNCHANGED <<key, now, cache, inChan, rvars, svars>>


(* ---- AppsecRunner (design, section 4.4) -------------------------------- *)
InBandOutcomes   == {"allow", "deny", "panic"}
OutOfBandOutcomes == {"allow", "deny"}

\* variant: a trapped panic answers like a plain allow, with status 200
VerdictPanicAsAllow(outcome) ==
    [InBandInterrupt |-> outcome = "deny",
     code   |-> IF outcome = "deny" THEN StatusForbidden ELSE StatusOK,
     action |-> IF outcome = "deny" THEN "deny" ELSE "allow"]

\* the InBandVerdict composed from the in-band state; a trapped panic
\* yields a synthesized allow with status 500
Verdict(outcome) ==
    [InBandInterrupt |-> outcome = "deny",
     code   |-> CASE outcome = "allow" -> StatusOK
                  [] outcome = "deny"  -> StatusForbidden
                  [] OTHER             -> StatusInternalServerError,
     action |-> IF outcome = "deny" THEN "deny" ELSE "allow"]

\* the response of a runtime between two requests: it is cleared when the
\* request is released
NoResponse ==
    [req |-> 0, v |-> [InBandInterrupt |-> FALSE, code |-> StatusOK,
                       action |-> "allow"]]

\* the out-of-band phase works on the same response: a match there
\* overwrites its action and status
OutOfBandResponse(v, outcome) ==
    IF outcome = "allow" THEN v
    ELSE [v EXCEPT !.code = StatusForbidden, !.action = "deny"]

\* variant: a request stays on offer after its send has completed
BlockedOrSent == {g \in Requests : pc[g] \in {"send", "wait"}}

\* the requests whose handler is blocked in w.InChan <- parsedRequest
Blocked == {g \in Requests : pc[g] = "send"}

\* the request runner r holds
Current(r) == CHOOSE h \in cur[r] : TRUE

\* step 1: receive the next request from InChan. A buffered request is
\* taken first (and a blocked sender then moves into the freed slot); a
\* closed and empty channel ends the runner; otherwise the runner meets a
\* handler blocked in its send (w.InChan <- parsedRequest, appsec.go:378).
RunnerRecv(r) ==
    /\ rpc[r] = "recv"
    /\ IF inChan # << >>
       THEN /\ cur' = [cur EXCEPT ![r] = {Head(inChan)}]
            /\ rpc' = [rpc EXCEPT ![r] = "inband"]
            /\ IF Blocked # {}
               THEN \E g \in Blocked :
                       /\ inChan' = Append(Tail(inChan), g)
                       /\ pc' = [pc EXCEPT ![g] = "wait"]
                       /\ did' = [did EXCEPT ![g] = @ \cup {"enq"}]
               ELSE /\ inChan' = Tail(inChan)
                    /\ UNCHANGED <<pc, did>>
       ELSE IF inChanClosed
       THEN /\ rpc' = [rpc EXCEPT ![r] = "exited"]
            /\ UNCHANGED <<cur, inChan, pc, did>>
       ELSE \E h \in Blocked :
               /\ cur' = [cur EXCEPT ![r] = {h}]
               /\ rpc' = [rpc EXCEPT ![r] = "inband"]
               /\ pc' = [pc EXCEPT ![h] = "wait"]
               /\ did' = [did EXCEPT ![h] = @ \cup {"enq"}]
               /\ UNCHANGED inChan
    /\ UNCHANGED <<key, status, respChan, blocks, now, cache, events, trapped,
                   runtimeResponse, svars>>

\* the runner goes on to the out-of-band phase and sends the verdict late
RunnerInBandLateReply(r, outcome) ==
    /\ rpc[r] = "inband"
    /\ rpc' = [rpc EXCEPT ![r] = "oob"]
    /\ UNCHANGED <<hvars, now, cache, inChan, cur, events, trapped,
                   runtimeResponse, svars>>

\* steps 2-5: the in-band phase and the send of its verdict on the reply
\* channel; after a trapped panic the out-of-band phase is skipped
RunnerInBand(r, outcome) ==
    /\ rpc[r] = "inband"
    /\ LET h == Current(r) IN
       /\ Len(respChan[h]) < ResponseChannelCap
       /\ respChan' = [respChan EXCEPT ![h] = Append(@, Verdict(outcome))]
       /\ did' = [did EXCEPT ![h] =
                    @ \cup {"reply"}
                      \cup (IF outcome = "deny" THEN {"in_deny"} ELSE {})
                      \cup (IF outcome = "panic" THEN {"panic", "released"} ELSE {})]
    /\ rpc' = [rpc EXCEPT ![r] = IF outcome = "panic" THEN "recv" ELSE "oob"]
    /\ cur' = [cur EXCEPT ![r] = IF outcome = "panic" THEN {} ELSE @]
    /\ trapped' = IF outcome = "panic" THEN trapped \cup {r} ELSE trapped
    /\ runtimeResponse' = [runtimeResponse EXCEPT ![r] =
                              IF outcome = "panic" THEN NoResponse
                              ELSE [req |-> Current(r),
                                    v |-> Verdict(outcome)]]
    /\ UNCHANGED <<pc, key, status, blocks, now, cache, inChan, events, svars>>

\* variant: only an out-of-band match leads to an event
EventDueOutOfBandOnly(inBandMatched, outcome) == outcome # "allow"

\* step 8: an event is due if either phase reached a non-allow disposition
EventDue(inBandMatched, outcome) == inBandMatched \/ outcome # "allow"

\* steps 6-7: the out-of-band phase, its histogram and the rule-hit counters
RunnerOutOfBand(r, outcome) ==
    /\ rpc[r] = "oob"
    /\ LET h    == Current(r)
           emit == EventDue("in_deny" \in did[h], outcome)
       IN /\ did' = [did EXCEPT ![h] =
                       @ \cup {"oob", "hits"}
                         \cup (IF outcome # "allow" THEN {"oob_deny"} ELSE {})
                         \cup (IF emit THEN {} ELSE {"released"})]
          /\ rpc' = [rpc EXCEPT ![r] = IF emit THEN "emit" ELSE "recv"]
          /\ cur' = [cur EXCEPT ![r] = IF emit THEN @ ELSE {}]
    /\ runtimeResponse' = [runtimeResponse EXCEPT ![r] =
                              IF EventDue("in_deny" \in did[Current(r)],
                                          outcome)
                              THEN [@ EXCEPT !.v =
                                       OutOfBandResponse(@, outcome)]
                              ELSE NoResponse]
    /\ UNCHANGED <<pc, key, status, respChan, blocks, now, cache, inChan, events,
                   trapped, svars>>

\* steps 8-9: the event goes to the downstream bus, the request is released
RunnerEmit(r) ==
    /\ rpc[r] = "emit"
    /\ events' = events \cup cur[r]
    /\ did' = [did EXCEPT ![Current(r)] = @ \cup {"event", "released"}]
    /\ rpc' = [rpc EXCEPT ![r] = "recv"]
    /\ cur' = [cur EXCEPT ![r] = {}]
    /\ runtimeResponse' = [runtimeResponse EXCEPT ![r] = NoResponse]
    /\ UNCHANGED <<pc, key, status, respChan, blocks, now, cache, inChan,
                   trapped, svars>>

(* ---- configuration (appsec.go:36-47, 96-226) --------------------------- *)
\* the zero value of AppsecSourceConfig
ZeroConfig ==
    [ListenAddr |-> "", ListenSocket |-> "", Routines |-> 0,
     AppsecConfig |-> "", AppsecConfigPath |-> "",
     AuthCacheDuration |-> << >>]

\* a configuration file that names a rule set and nothing else
DefaultYaml ==
    [wellFormed |-> TRUE, ListenAddr |-> "", ListenSocket |-> "",
     Routines |-> Routines, AppsecConfig |-> "crowdsecurity/appsec-default",
     AppsecConfigPath |-> "", AuthCacheDuration |-> << >>]

\* the configuration files: wellFormed is whether yaml.UnmarshalStrict
\* accepts the text, the other fields are the values of its keys, "" and 0
\* for a key that is absent; a duration is << >> if absent, <<d>> if given
YamlConfigs ==
    [wellFormed        : BOOLEAN,
     ListenAddr        : {"", "0.0.0.0:7422"},
     ListenSocket      : {"", "/run/crowdsec-appsec.sock"},
     Routines          : (-1)..MaxConfigRoutines,
     AppsecConfig      : {"", "crowdsecurity/appsec-default"},
     AppsecConfigPath  : {"", "/etc/crowdsec/appsec.yaml"},
     AuthCacheDuration : {<< >>} \cup {<<d>> : d \in (-1)..1}]

DefaultListenAddr == "127.0.0.1:7422"

\* variant: the default address is taken whenever listen_addr is empty
DefaultedListenAddrAlways(addr, socket) ==
    IF addr = "" THEN DefaultListenAddr ELSE addr

\* appsec.go:102-104
DefaultedListenAddr(addr, socket) ==
    IF addr = "" /\ socket = "" THEN DefaultListenAddr ELSE addr

\* appsec.go:118-121: always have at least one appsec routine
DefaultedRoutines(n) == IF n = 0 THEN 1 ELSE n

\* UnmarshalConfig: the error it returns, if any, and w.config after it
UnmarshalConfig(y) ==
    IF ~y.wellFormed
    THEN [err |-> TRUE, config |-> ZeroConfig]
    ELSE LET c == [ListenAddr   |-> DefaultedListenAddr(y.ListenAddr,
                                                       y.ListenSocket),
                   ListenSocket |-> y.ListenSocket,
                   Routines     |-> DefaultedRoutines(y.Routines),
                   AppsecConfig |-> y.AppsecConfig,
                   AppsecConfigPath  |-> y.AppsecConfigPath,
                   AuthCacheDuration |-> y.AuthCacheDuration]
         IN [err    |-> c.AppsecConfig = "" /\ c.AppsecConfigPath = "",
             config |-> c]

\* Configure on the file y: loadOk is whether the rule set loads, builds
\* and passes its on-load rules, initOk whether the runners initialise.
\* make([]AppsecRunner, n) panics for a negative n.
\* an element of w.AppsecRunners as make leaves it
ZeroRunner ==
    [UUID |-> 0, AppsecRuntime |-> [copy |-> 0, onLoadRuns |-> 0],
     outChan |-> "nil"]

\* variant: the on-load rules are processed inside the loop over the runners
OnLoadRunsPerRunner(routines) == routines

\* appsec.go:195: ProcessOnLoadRules is called once on w.AppsecRuntime,
\* outside the loop that builds the runners
OnLoadRuns(routines) == 1

\* appsec.go:203-217: the runner of iteration i: a fresh UUID, and a pointer
\* to wrt, this iteration's copy of *w.AppsecRuntime, which carries the
\* effect of the on-load rules run so far; outChan is not set here
NewRunner(i, runs) ==
    [UUID |-> i, AppsecRuntime |-> [copy |-> i, onLoadRuns |-> runs],
     outChan |-> "nil"]

\* loadOk: the appsec_config loads and builds; onLoadOk: the on-load rules
\* are processed without error; initOk: runner.Init succeeds
ConfigureResult(y, loadOk, onLoadOk, initOk) ==
    LET u == UnmarshalConfig(y)
        c == [u.config EXCEPT !.AuthCacheDuration =
                  IF @ = << >> THEN <<AuthCacheDuration>> ELSE @]
        runs == OnLoadRuns(c.Routines)
    IN IF u.err
       THEN [boot |-> "error", err |-> "config", config |-> u.config,
             runs |-> 0, AppsecRunners |-> << >>]
       ELSE IF ~loadOk
       THEN [boot |-> "error", err |-> "load", config |-> c,
             runs |-> 0, AppsecRunners |-> << >>]
       ELSE IF ~onLoadOk
       THEN [boot |-> "error", err |-> "onload", config |-> c,
             runs |-> 1, AppsecRunners |-> << >>]
       ELSE IF c.Routines < 0
       THEN [boot |-> "panic", err |-> "none", config |-> c,
             runs |-> 1, AppsecRunners |-> << >>]
       ELSE IF ~initOk
       THEN [boot |-> "error", err |-> "init", config |-> c,
             runs |-> runs,
             AppsecRunners |-> [i \in 1..c.Routines |-> ZeroRunner]]
       ELSE [boot |-> "configured", err |-> "none", config |-> c,
             runs |-> runs,
             AppsecRunners |-> [i \in 1..c.Routines |-> NewRunner(i, runs)]]

\* appsec.go:258, 279: the listener task l opens its listener
Opens(c, l) ==
    IF l = "unix" THEN c.ListenSocket # "" ELSE c.ListenAddr # ""

Configure(loadOk, onLoadOk, initOk) ==
    /\ boot = "new"
    /\ LET res == ConfigureResult(yaml, loadOk, onLoadOk, initOk)
       IN /\ boot' = res.boot
          /\ configErr' = res.err
          /\ config' = res.config
          /\ onLoadRuns' = res.runs
          /\ AppsecRunners' = res.AppsecRunners
          /\ nrunners' = Len(res.AppsecRunners)
    /\ UNCHANGED <<yaml, tasks, removed, started, avars, evars, dvars,
                   lvars, qvars>>

(* ---- StreamingAcquisition (appsec.go:244-301) -------------------------- *)
\* variant: the error a task returns is dropped
KillsTombNever(err) == FALSE

\* t.Go: a task that returns an error kills the tomb
KillsTomb(err) == err

\* variant: one runner variable shared by all iterations of the loop, so
\* that every task runs the runner of the last iteration
CapturedShared(slice, i) == [slice[Len(slice)] EXCEPT !.outChan = "out"]

\* appsec.go:250-255: the runner the task of iteration i runs: the loop
\* variable of that iteration, a copy of w.AppsecRunners[i] whose outChan
\* was set to out before t.Go; each iteration has its own variable
Captured(slice, i) == [slice[i] EXCEPT !.outChan = "out"]

\* appsec.go:244-256: the runner tasks and the two listener tasks start
StartStreaming ==
    /\ boot = "configured"
    /\ boot' = "streaming"
    /\ tasks' = nrunners
    /\ started' = [i \in 1..Len(AppsecRunners) |-> Captured(AppsecRunners, i)]
    /\ lst' = [l \in Listeners |-> "starting"]
    /\ UNCHANGED <<yaml, config, nrunners, removed, configErr, onLoadRuns,
                   AppsecRunners, hvars, now, cache, inChan,
                   rvars, dying, sup, reason, inChanClosed, evars, dvars,
                   lvars, qvars>>

\* a listener task ends with an error
ListenerError(l) ==
    /\ lst' = [lst EXCEPT ![l] = "failed"]
    /\ dying' = (dying \/ KillsTomb(TRUE))
    /\ reason' = IF ~dying /\ KillsTomb(TRUE) THEN "listener" ELSE reason

\* appsec.go:257-292: a listener task begins. Without its address it
\* returns at once; else the socket path is removed first, and the
\* listener is opened (ok) or the task returns the error
ListenerStart(l, ok) ==
    /\ lst[l] = "starting"
    /\ removed' = (removed \/ (l = "unix" /\ Opens(config, l)))
    /\ IF ~Opens(config, l)
       THEN /\ lst' = [lst EXCEPT ![l] = "off"]
            /\ UNCHANGED <<dying, reason>>
       ELSE IF sup # "running"
       THEN /\ lst' = [lst EXCEPT ![l] = "closed"]
            /\ UNCHANGED <<dying, reason>>
       ELSE IF ok
       THEN /\ lst' = [lst EXCEPT ![l] = "serving"]
            /\ UNCHANGED <<dying, reason>>
       ELSE ListenerError(l)
    /\ UNCHANGED <<yaml, config, boot, nrunners, tasks, configErr,
                   onLoadRuns, AppsecRunners, started, hvars, now, cache,
                   inChan, rvars, sup, inChanClosed, evars, dvars,
                   lvars, qvars>>

\* Serve returns an error other than http.ErrServerClosed
ListenerFail(l) ==
    /\ lst[l] = "serving"
    /\ ListenerError(l)
    /\ UNCHANGED <<cvars, hvars, now, cache, inChan, rvars, sup, inChanClosed,
                   evars, dvars, lvars, qvars>>

\* the tomb is killed from outside
Kill ==
    /\ ~dying
    /\ dying' = TRUE
    /\ reason' = "killed"
    /\ UNCHANGED <<hvars, now, cache, inChan, rvars, sup, lst, inChanClosed,
                   ovars>>

\* appsec.go:293-297: <-t.Dying() returns and w.server.Shutdown is called;
\* the listeners are closed and Shutdown waits for the handlers in flight
SupervisorShutdown ==
    /\ boot = "streaming"
    /\ sup = "running"
    /\ dying
    /\ sup' = "shutting"
    /\ lst' = [l \in Listeners |->
                 IF lst[l] = "serving" THEN "closed" ELSE lst[l]]
    /\ UNCHANGED <<hvars, now, cache, inChan, rvars, dying, reason,
                   inChanClosed, ovars>>

\* appsec.go:297-298: Shutdown returns once no handler is in flight, and
\* the goroutine returns nil
SupervisorReturn ==
    /\ sup = "shutting"
    /\ \A h \in Requests : pc[h] \in {"idle", "done"}
    /\ sup' = "returned"
    /\ UNCHANGED <<hvars, now, cache, inChan, rvars, dying, lst, reason,
                   inChanClosed, ovars>>

\* time passes
Tick ==
    /\ now < MaxTime
    /\ now' = now + 1
    /\ UNCHANGED <<hvars, cache, inChan, rvars, svars>>

(* ---- evaluation of one phase (spec 3, 4.4 steps 3-4) ------------------- *)
MaxMatches == 3

Dispositions == {"allow", "captcha", "custom", "deny"}

\* the severity order Allow < Captcha < Custom < Deny
Severity(d) ==
    CASE d = "allow"   -> 0
      [] d = "captcha" -> 1
      [] d = "custom"  -> 2
      [] d = "deny"    -> 3

\* variant: the disposition of the latest match stands
EscalateLastWins(current, d) == d

\* the monotonic severity rule: a match raises the disposition of the phase
\* and never lowers it
Escalate(current, d) ==
    IF Severity(d) > Severity(current) THEN d ELSE current

\* no phase is under evaluation
NoEvaluation ==
    /\ disposition = "allow"
    /\ matched = << >>
    /\ evalpc = "rules"
    /\ overridden = FALSE

\* step 3: a rule matches with disposition d
RuleMatch(d) ==
    /\ evalpc = "rules"
    /\ Len(matched) < MaxMatches
    /\ matched' = Append(matched, d)
    /\ disposition' = Escalate(disposition, d)
    /\ UNCHANGED <<evalpc, overridden, avars, cvars, dvars,
                   lvars, qvars>>

\* step 4: the PostEval hooks run; one of them may rewrite the disposition
PostEval(o) ==
    /\ evalpc = "rules"
    /\ evalpc' = "final"
    /\ disposition' = IF o = "keep" THEN disposition ELSE o
    /\ overridden' = (o # "keep")
    /\ UNCHANGED <<matched, avars, cvars, dvars,
                   lvars, qvars>>

(* ---- ExpireDecisions, DeleteDecisions (part_000:397-459) --------------- *)
\* the decisions of a list are numbered from 1 in list order and carry
\* their number as id; a call works on the decisions lo..hi of the list
Call(lo, hi) == [lo |-> lo, hi |-> hi, chunk |-> 1, total |-> 0]

Size(f) == f.hi - f.lo + 1

\* variant: both functions split a list of exactly the bulk size
DirectStrict(o, len) == len < decisionDeleteBulkSize

\* part_000:400, 432: the list goes into one statement
Direct(o, len) ==
    IF o = "delete" THEN len < decisionDeleteBulkSize
                    ELSE len <= decisionDeleteBulkSize

\* slicetools.Chunks(decisions, size): the number of chunks, and the i-th
\* chunk of the decisions lo..hi; every chunk but the last has size
\* elements and the last has the rest
NumChunks(f, size) ==
    IF Size(f) = 0 THEN 1 ELSE (Size(f) + size - 1) \div size

Chunk(f, i, size) ==
    Call(f.lo + (i - 1) * size,
         IF f.lo + i * size - 1 < f.hi THEN f.lo + i * size - 1 ELSE f.hi)

\* no call on decisions is in progress
NoDecisions ==
    /\ op = "none"
    /\ ndec = 0
    /\ table = {}
    /\ expiredIds = {}
    /\ calls = << >>
    /\ result = << >>
    /\ dbpc = "done"
    /\ maxBulk = 0

\* the innermost call returns (rows, err) to the call below it on the
\* stack: on an error that call returns its total and the error in turn,
\* else it adds rows to its total and goes on with the next chunk
RECURSIVE Return(_, _, _)
Return(stack, rows, err) ==
    IF stack = << >>
    THEN [calls |-> << >>, result |-> <<[rows |-> rows, err |-> err]>>]
    ELSE LET p == stack[Len(stack)]
         IN IF err
            THEN Return(SubSeq(stack, 1, Len(stack) - 1), p.total, TRUE)
            ELSE [calls  |-> [stack EXCEPT ![Len(stack)] =
                                 [p EXCEPT !.total = @ + rows,
                                           !.chunk = @ + 1]],
                  result |-> << >>]

\* the state after the innermost call has returned (rows, err)
Returns(rows, err) ==
    LET r == Return(SubSeq(calls, 1, Len(calls) - 1), rows, err)
    IN /\ calls' = r.calls
       /\ result' = r.result
       /\ dbpc' = IF r.calls = << >> THEN "done" ELSE "running"

\* a short list: one statement on all its ids; the database does it (ok)
\* and reports the rows, or fails
BulkStatement(ok) ==
    /\ dbpc = "running"
    /\ LET f   == calls[Len(calls)]
           ids == f.lo..f.hi
       IN /\ Direct(op, Size(f))
          /\ maxBulk' = IF Size(f) > maxBulk THEN Size(f) ELSE maxBulk
          /\ IF ok
             THEN /\ table' = IF op = "delete" THEN table \ ids ELSE table
                  /\ expiredIds' = IF op = "expire"
                                   THEN expiredIds \cup (table \cap ids)
                                   ELSE expiredIds
                  /\ Returns(Cardinality(table \cap ids), FALSE)
             ELSE /\ UNCHANGED <<table, expiredIds>>
                  /\ Returns(0, TRUE)
    /\ UNCHANGED <<op, ndec, avars, evars, cvars,
                   lvars, qvars>>

\* a big batch: the function calls itself on the next chunk; a call
\* beyond the depth the stack allows ends the program
Recurse ==
    /\ dbpc = "running"
    /\ LET f == calls[Len(calls)]
       IN /\ ~Direct(op, Size(f))
          /\ f.chunk <= NumChunks(f, decisionDeleteBulkSize)
          /\ IF Len(calls) < MaxDepth
             THEN /\ calls' = Append(calls,
                                    Chunk(f, f.chunk, decisionDeleteBulkSize))
                  /\ UNCHANGED dbpc
             ELSE /\ dbpc' = "overflow"
                  /\ UNCHANGED calls
    /\ UNCHANGED <<op, ndec, table, expiredIds, result, maxBulk, avars, evars,
                   cvars, lvars, qvars>>

\* a big batch: no chunk is left, the function returns its total
ReturnTotal ==
    /\ dbpc = "running"
    /\ LET f == calls[Len(calls)]
       IN /\ ~Direct(op, Size(f))
          /\ f.chunk > NumChunks(f, decisionDeleteBulkSize)
          /\ Returns(f.total, FALSE)
    /\ UNCHANGED <<op, ndec, table, expiredIds, maxBulk, avars, evars, cvars,
                   lvars, qvars>>

\* part_000:374-385: what ExpireDecisionsWithFilter returns, given the
\* decisions ids its query found and what ExpireDecisions returned for them
ExpireDecisionsWithFilterReturn(ids, res) ==
    IF res.err
    THEN [count |-> 0, decisions |-> {}, err |-> "DeleteFail"]
    ELSE [count |-> res.rows, decisions |-> ids, err |-> "none"]

(* ---- decision queries (part_000:31-326) -------------------------------- *)
DecisionIds == 1..MaxRows

\* the rows of the table. All rows have the same scope and type, so that
\* value stands for the triple (scope, type, value); until is counted from
\* the time of the query, which is 0; no row is simulated
Values == {"1.2.3.4", "5.6.7.8"}
Untils == {-2, -1, 1, 2}
Tables == UNION {[S -> [value : Values, until : Untils]] :
                    S \in SUBSET DecisionIds}

\* created_at of row i: rows are created in the order of their ids
CreatedAt(i) == i

\* the filter map: each parameter that is present has one value
ParamValues ==
    [dedup    |-> {"false", "true"},
     contains |-> {"maybe"},
     ip       |-> {"1.2.3.4", "nope"},
     limit    |-> {"1", "x"},
     offset   |-> {"x"},
     id_gt    |-> {"1", "x"},
     foo      |-> {"bar"}]

Filters ==
    UNION {{f \in [S -> UNION {ParamValues[p] : p \in S}] :
               \A p \in S : f[p] \in ParamValues[p]} :
           S \in {T \in SUBSET DOMAIN ParamValues :
                     Cardinality(T) <= MaxParams}}

\* the since argument: nil, or a time
Sinces == {<< >>, <<-2>>, <<1>>}

\* strconv.ParseBool, strconv.Atoi, csnet.NewRange: the texts they accept
ParseBoolOk(v) ==
    v \in {"1", "t", "T", "TRUE", "true", "True",
           "0", "f", "F", "FALSE", "false", "False"}

AtoiOk(v) == v \in {"0", "1", "2"}

Atoi(v) == CASE v = "0" -> 0 [] v = "1" -> 1 [] OTHER -> 2

NewRangeOk(v) == v \in Values

\* the ids in s in ascending order
RECURSIVE SortAsc(_)
SortAsc(s) ==
    IF s = {} THEN << >>
    ELSE LET m == CHOOSE i \in s : \A j \in s : i <= j
         IN <<m>> \o SortAsc(s \ {m})

\* the nil *ent.DecisionQuery
NilQuery == [nil |-> TRUE, ids |-> {}, limit |-> << >>]

\* part_000:52-118: the errors the loop over the filter can return; which
\* one, if several values are invalid, depends on the order of the map
BuildErrors(f) ==
    (IF \/ "contains" \in DOMAIN f /\ ~ParseBoolOk(f["contains"])
        \/ \E p \in {"limit", "offset", "id_gt"} \cap DOMAIN f :
              ~AtoiOk(f[p])
     THEN {"InvalidFilter"} ELSE {})
    \cup
    (IF "ip" \in DOMAIN f /\ ~NewRangeOk(f["ip"])
     THEN {"InvalidIPOrRange"} ELSE {})

\* part_000:31-128: the query with the conditions of the filter added, or
\* nil and an error. Parameters the switch does not name are ignored. An
\* ip names one address, which the rows with that value contain
BuildDecisionRequestWithFilter(tbl, query, f) ==
    IF BuildErrors(f) # {}
    THEN {[query |-> NilQuery, err |-> e] : e \in BuildErrors(f)}
    ELSE {[query |->
              [nil   |-> FALSE,
               ids   |-> {i \in query.ids :
                            /\ "id_gt" \in DOMAIN f => i > Atoi(f["id_gt"])
                            /\ "ip" \in DOMAIN f => tbl[i].value = f["ip"]},
               limit |-> IF "limit" \in DOMAIN f
                         THEN <<Atoi(f["limit"])>> ELSE << >>],
           err |-> "none"]}

\* query.Order(ent.Asc(decision.FieldID)) followed by query.All(ctx)
All(query) ==
    LET rows == SortAsc(query.ids)
    IN IF query.limit = << >> \/ query.limit[1] >= Len(rows)
       THEN rows
       ELSE SubSeq(rows, 1, query.limit[1])

\* variant: the later decision is looked for among the selected rows only
longestAmongSelected(tbl, ids) ==
    {i \in ids : ~\E j \in ids :
                     /\ tbl[j].value = tbl[i].value
                     /\ tbl[j].until > tbl[i].until}

\* part_000:238-264: the left join of the selected rows with the whole
\* table on equal value, type and scope and a later until, of which the
\* rows without a partner are kept
longestDecisionForScopeTypeValue(tbl, ids) ==
    {i \in ids : ~\E j \in DOMAIN tbl :
                     /\ tbl[j].value = tbl[i].value
                     /\ tbl[j].until > tbl[i].until}

\* part_000:135, 161, 276, 307: if v, ok := filters["dedup"]; !ok || v[0] != "false"
Dedup(f) == "dedup" \notin DOMAIN f \/ f["dedup"] # "false"

QueryKinds == {"all", "expired", "expired_since", "new_since"}

\* the first conditions of the four queries, at time t
Selected(kind, tbl, since, t) ==
    {i \in DOMAIN tbl :
        CASE kind = "all"     -> tbl[i].until > t
          [] kind = "expired" -> tbl[i].until < t
          [] kind = "expired_since" ->
                /\ tbl[i].until < t
                /\ since # << >> => tbl[i].until > since[1]
          [] OTHER ->
                /\ tbl[i].until > t
                /\ since # << >> => CreatedAt(i) > since[1]}

\* part_000:140-144 against 165-172: the query looks at the error before
\* it uses the query that came with it
ChecksErrorFirst(kind) == kind # "expired"

QueryFailed == [list |-> << >>, err |-> "QueryFail", usedNil |-> FALSE]
Panicked    == [list |-> << >>, err |-> "panic", usedNil |-> FALSE]

\* what the query returns on the result b of BuildDecisionRequestWithFilter.
\* QueryExpiredDecisionsWithFilters calls Order on the nil query before it
\* looks at the error: a nil dereference unless Order puts up with a nil
\* receiver. QueryNewDecisionsSinceWithFilters formats since in its error
\* messages, a nil dereference if since is nil
Outcome(kind, b, since, dbOk) ==
    IF b.err # "none" /\ ~ChecksErrorFirst(kind)
    THEN {[Panicked EXCEPT !.usedNil = TRUE],
          [QueryFailed EXCEPT !.usedNil = TRUE]}
    ELSE IF b.err # "none" \/ ~dbOk
    THEN IF kind = "new_since" /\ since = << >>
         THEN {Panicked} ELSE {QueryFailed}
    ELSE {[list |-> All(b.query), err |-> "none", usedNil |-> FALSE]}

\* part_000:130-154, 156-181, 266-326: the four queries
QueryOutcomes(kind, tbl, f, since, t, dbOk) ==
    LET ids   == Selected(kind, tbl, since, t)
        query == [nil |-> FALSE, limit |-> << >>,
                  ids |-> IF Dedup(f)
                          THEN longestDecisionForScopeTypeValue(tbl, ids)
                          ELSE ids]
    IN UNION {Outcome(kind, b, since, dbOk) :
                 b \in BuildDecisionRequestWithFilter(tbl, query, f)}

NoResult == [kind |-> "none", since |-> << >>, list |-> << >>,
             err |-> "none", usedNil |-> FALSE]

\* no query is called
NoQuery ==
    /\ store = << >>
    /\ filter = << >>
    /\ qpc = "done"
    /\ qres = NoResult

\* one of the queries is called and returns
Query(kind, since, dbOk) ==
    /\ qpc = "ready"
    /\ kind \in {"all", "expired"} => since = << >>
    /\ \E o \in QueryOutcomes(kind, store, filter, since, 0, dbOk) :
          qres' = [kind |-> kind, since |-> since, list |-> o.list,
                   err |-> o.err, usedNil |-> o.usedNil]
    /\ qpc' = "done"
    /\ UNCHANGED <<store, filter, avars, evars, cvars, dvars, lvars>>

(* ---- the state machine ------------------------------------------------- *)
\* no request has arrived, the runners wait, no shutdown is asked for
Quiet ==
    /\ pc = [h \in Requests |-> "idle"]
    /\ key = [h \in Requests |-> ""]
    /\ status = [h \in Requests |-> 0]
    /\ did = [h \in Requests |-> {}]
    /\ respChan = [h \in Requests |-> << >>]
    /\ blocks = 0
    /\ now = 0
    /\ cache = NewAuthCache
    /\ inChan = << >>
    /\ rpc = [r \in Runners |-> "recv"]
    /\ cur = [r \in Runners |-> {}]
    /\ events = {}
    /\ trapped = {}
    /\ runtimeResponse = [r \in Runners |-> NoResponse]
    /\ dying = FALSE
    /\ sup = "running"
    /\ reason = "none"
    /\ inChanClosed = FALSE

(* ---- AuthCache under concurrent handlers (appsec.go:66-89, 349-360) ---- *)
Goroutines == 1..MaxGoroutines

\* sync.RWMutex{}: nobody holds the lock
Unlocked == [readers |-> {}, writers |-> {}]

\* variant: the read lock is granted whatever the state of the write lock
CanRLockAlways(m) == TRUE

\* ac.mu.RLock() returns when no goroutine holds the write lock
CanRLock(m) == m.writers = {}

\* ac.mu.Lock() returns when no goroutine holds the lock in either mode
CanLock(m) == m.writers = {} /\ m.readers = {}

\* a result that no Set has stored
Torn == [exists |-> TRUE, expiration |-> -1]

\* expiration, exists := ac.APIKeys[apiKey]: what the read of the map may
\* yield. A read while another goroutine is writing the map is a data
\* race, with any result
MapRead(c, apiKey, m) ==
    IF m.writers = {}
    THEN {Get(c, apiKey)}
    ELSE {Get(c, apiKey), Torn, [exists |-> FALSE, expiration |-> 0]}

\* no handler is in its authentication
NoLocking ==
    /\ mu = Unlocked
    /\ gpc = [g \in Goroutines |-> "idle"]
    /\ gkey = [g \in Goroutines |-> ""]
    /\ gres = [g \in Goroutines |-> [exists |-> FALSE, expiration |-> 0]]
    /\ lastSet = [k \in {} |-> 0]

\* what the lock steps leave alone
notlock == <<hvars, inChan, rvars, dying, sup, lst, reason, inChanClosed,
             evars, cvars, dvars, qvars>>

\* appsec.go:341-349: a request with a key arrives and goes to Get
Arrive(g, apiKey) ==
    /\ gpc[g] = "idle"
    /\ gpc' = [gpc EXCEPT ![g] = "rlock"]
    /\ gkey' = [gkey EXCEPT ![g] = apiKey]
    /\ UNCHANGED <<mu, gres, lastSet, cache, now, notlock>>

\* appsec.go:85: ac.mu.RLock()
GetRLock(g) ==
    /\ gpc[g] = "rlock"
    /\ CanRLock(mu)
    /\ mu' = [mu EXCEPT !.readers = @ \cup {g}]
    /\ gpc' = [gpc EXCEPT ![g] = "read"]
    /\ UNCHANGED <<gkey, gres, lastSet, cache, now, notlock>>

\* appsec.go:86-88, 351: the map is read, the read lock released, and the
\* result returned; the handler goes on to the probe unless the entry
\* exists and has not expired
GetRead(g) ==
    /\ gpc[g] = "read"
    /\ \E res \in MapRead(cache, gkey[g], mu) :
          /\ gres' = [gres EXCEPT ![g] = res]
          /\ gpc' = [gpc EXCEPT ![g] =
                        IF ~res.exists \/ After(now, res.expiration)
                        THEN "probe" ELSE "idle"]
    /\ mu' = [mu EXCEPT !.readers = @ \ {g}]
    /\ UNCHANGED <<gkey, lastSet, cache, now, notlock>>

\* appsec.go:352-357: IsAuth returns; a refused key is answered 401
ProbeReturn(g, ok) ==
    /\ gpc[g] = "probe"
    /\ gpc' = [gpc EXCEPT ![g] = IF ok THEN "lock" ELSE "idle"]
    /\ UNCHANGED <<mu, gkey, gres, lastSet, cache, now, notlock>>

\* appsec.go:79: ac.mu.Lock()
SetLock(g) ==
    /\ gpc[g] = "lock"
    /\ CanLock(mu)
    /\ mu' = [mu EXCEPT !.writers = @ \cup {g}]
    /\ gpc' = [gpc EXCEPT ![g] = "write"]
    /\ UNCHANGED <<gkey, gres, lastSet, cache, now, notlock>>

\* appsec.go:80-81, 359: the entry is stored with the expiration
\* time.Now().Add(*w.config.AuthCacheDuration) and the lock released
SetWrite(g) ==
    /\ gpc[g] = "write"
    /\ cache' = Set(cache, gkey[g], now + AuthCacheDuration)
    /\ lastSet' = [k \in DOMAIN lastSet \cup {gkey[g]} |->
                     IF k = gkey[g] THEN now + AuthCacheDuration
                     ELSE lastSet[k]]
    /\ mu' = [mu EXCEPT !.writers = @ \ {g}]
    /\ gpc' = [gpc EXCEPT ![g] = "idle"]
    /\ UNCHANGED <<gkey, gres, now, notlock>>

\* the datasource after Configure and the start of StreamingAcquisition,
\* under the default configuration with the listener open
Started ==
    /\ Quiet
    /\ yaml = DefaultYaml
    /\ config = ConfigureResult(DefaultYaml, TRUE, TRUE, TRUE).config
    /\ boot = "streaming"
    /\ nrunners = Routines
    /\ tasks = Routines
    /\ removed = FALSE
    /\ configErr = "none"
    /\ onLoadRuns = 1
    /\ AppsecRunners =
          ConfigureResult(DefaultYaml, TRUE, TRUE, TRUE).AppsecRunners
    /\ started = [i \in 1..Len(AppsecRunners) |-> Captured(AppsecRunners, i)]
    /\ lst = [l \in Listeners |-> IF Opens(config, l) THEN "serving" ELSE "off"]

Init == Started /\ NoEvaluation /\ NoDecisions /\ NoLocking /\ NoQuery

\* the datasource before Configure, for every configuration file
InitStartup ==
    /\ Quiet
    /\ yaml \in YamlConfigs
    /\ config = ZeroConfig
    /\ boot = "new"
    /\ nrunners = 0
    /\ tasks = 0
    /\ removed = FALSE
    /\ configErr = "none"
    /\ onLoadRuns = 0
    /\ AppsecRunners = << >>
    /\ started = << >>
    /\ lst = [l \in Listeners |-> "off"]
    /\ NoEvaluation
    /\ NoDecisions
    /\ NoLocking
    /\ NoQuery

\* a call of ExpireDecisions or DeleteDecisions on a list of up to
\* MaxDecisions decisions, all of them in the database, which holds one
\* more decision that is not listed
InitDecisions ==
    /\ Started
    /\ NoEvaluation
    /\ NoLocking
    /\ NoQuery
    /\ op \in {"expire", "delete"}
    /\ ndec \in 0..MaxDecisions
    /\ table = 1..(ndec + 1)
    /\ expiredIds = {}
    /\ calls = <<Call(1, ndec)>>
    /\ result = << >>
    /\ dbpc = "running"
    /\ maxBulk = 0

\* the steps of the handlers and of the runners, for requests reqs that
\* carry a header in hdrs, parse as in parses, get the probe answers in
\* probes, and meet rules with the outcomes inb and oob
Serve(reqs, hdrs, parses, probes, inb, oob) ==
    \/ \E h \in reqs, k \in hdrs, parseOk \in parses :
          HandlerAccept(h, k, parseOk)
    \/ \E h \in reqs, ok \in probes, parseOk \in parses :
          HandlerProbeReturn(h, ok, parseOk)
    \/ \E h \in reqs : HandlerReceive(h)
    \/ \E r \in Runners : RunnerRecv(r)
    \/ \E r \in Runners, o \in inb : RunnerInBand(r, o)
    \/ \E r \in Runners, o \in oob : RunnerOutOfBand(r, o)

\* requests with a valid key and rules that match some of them, under a
\* shutdown that may come at any time
Lifecycle ==
    \/ \E r \in Runners : RunnerEmit(r)
    \/ Kill
    \/ SupervisorShutdown
    \/ SupervisorReturn

Next ==
    \/ Serve(SomeRequests, {"k1"}, {TRUE}, {TRUE}, InBandOutcomes, OutOfBandOutcomes)
    \/ Lifecycle

Spec == Init /\ [][Next]_vars

\* any header, any probe answer and the passing of time, under an empty
\* rule set (nothing matches, no event is emitted) and no shutdown
NextAuth ==
    \/ Serve(AuthRequests, Headers, BOOLEAN, BOOLEAN, {"allow"}, {"allow"})
    \/ Tick

SpecAuth == Init /\ [][NextAuth]_vars

\* the scheduler lets every runner that can finish its in-band phase do so,
\* and every handler whose verdict is there receive it
Fairness ==
    /\ \A r \in Runners : WF_vars(\E o \in InBandOutcomes : RunnerInBand(r, o))
    /\ \A h \in Requests : WF_vars(HandlerReceive(h))

\* the requests of Next with an out-of-band phase that finds nothing
NextFair ==
    \/ Serve(SomeRequests, {"k1"}, {TRUE}, {TRUE}, InBandOutcomes, {"allow"})
    \/ Lifecycle

FairSpec == Init /\ [][NextFair]_vars /\ Fairness

\* a runner that can go on with the out-of-band phase or with the event
\* does so: nothing but the scheduler stands between these steps
FairnessEmit ==
    \A r \in Runners :
        /\ WF_vars(\E o \in OutOfBandOutcomes : RunnerOutOfBand(r, o))
        /\ WF_vars(RunnerEmit(r))

\* the requests of Next while no shutdown is asked for
NextEmit ==
    \/ Serve(SomeRequests, {"k1"}, {TRUE}, {TRUE}, InBandOutcomes,
             OutOfBandOutcomes)
    \/ \E r \in Runners : RunnerEmit(r)

FairEmitSpec == Init /\ [][NextEmit]_vars /\ FairnessEmit

\* 2N+1 requests with a valid key for N runners, under an empty rule set
NextLoad == Serve(LoadRequests, {"k1"}, {TRUE}, {TRUE}, {"allow"}, {"allow"})

SpecLoad == Init /\ [][NextLoad]_vars

\* the evaluation of one phase over every sequence of matches
NextPhase ==
    \/ \E d \in Dispositions : RuleMatch(d)
    \/ \E o \in Dispositions \cup {"keep"} : PostEval(o)

SpecPhase == Init /\ [][NextPhase]_vars

\* Configure and the start of StreamingAcquisition on every configuration
\* file, with listeners that may fail and a tomb that may be killed
NextStartup ==
    \/ \E loadOk, onLoadOk, initOk \in BOOLEAN :
          Configure(loadOk, onLoadOk, initOk)
    \/ StartStreaming
    \/ \E l \in Listeners, ok \in BOOLEAN : ListenerStart(l, ok)
    \/ \E l \in Listeners : ListenerFail(l)
    \/ Kill
    \/ SupervisorShutdown
    \/ SupervisorReturn

SpecStartup == InitStartup /\ [][NextStartup]_vars

\* the authentication of concurrent requests, lock step by lock step
NextLock ==
    \/ \E g \in Goroutines, apiKey \in APIKeys : Arrive(g, apiKey)
    \/ \E g \in Goroutines : GetRLock(g)
    \/ \E g \in Goroutines : GetRead(g)
    \/ \E g \in Goroutines, ok \in BOOLEAN : ProbeReturn(g, ok)
    \/ \E g \in Goroutines : SetLock(g)
    \/ \E g \in Goroutines : SetWrite(g)
    \/ Tick

SpecLock == Init /\ [][NextLock]_vars

\* a query on a table of up to MaxRows decisions with a filter of up to
\* MaxParams parameters
InitQuery ==
    /\ Started
    /\ NoEvaluation
    /\ NoDecisions
    /\ NoLocking
    /\ store \in Tables
    /\ filter \in Filters
    /\ qpc = "ready"
    /\ qres = NoResult

NextQuery ==
    \E kind \in QueryKinds, since \in Sinces, dbOk \in BOOLEAN :
        Query(kind, since, dbOk)

SpecQuery == InitQuery /\ [][NextQuery]_vars

\* one call of ExpireDecisions or DeleteDecisions; the function is
\* sequential code and takes its next step as long as it has one
NextDecisions ==
    \/ \E ok \in BOOLEAN : BulkStatement(ok)
    \/ Recurse
    \/ ReturnTotal

SpecDecisions ==
    InitDecisions /\ [][NextDecisions]_vars /\ WF_vars(NextDecisions)

(* ---- C1 ---------------------------------------------------------------- *)
\* values sent so far on the reply channel of request h
Delivered(h) == Len(respChan[h]) + (IF "recv" \in did[h] THEN 1 ELSE 0)

Authenticated(h) == "hit" \in did[h] \/ "probe_ok" \in did[h]

\* C2: a request is counted, sent on InChan or held by a runner only if its
\* key was found unexpired in the AuthCache or validated by its own probe.
C2_EnqueuedOnlyIfAuthenticated ==
    /\ \A h \in Requests :
          (pc[h] \in {"send", "wait"} \/ {"count", "enq"} \cap did[h] # {})
             => Authenticated(h)
    /\ \A r \in Runners : \A h \in cur[r] : Authenticated(h)
    /\ \A i \in 1..Len(inChan) : Authenticated(inChan[i])

\* one request went through on a cache entry, another on its own probe
C2_Witness ==
    \E h, g \in Requests :
        /\ {"hit", "enq"} \subseteq did[h] /\ "probe" \notin did[h]
        /\ {"probe_ok", "enq"} \subseteq did[g]

(* ---- C3 ---------------------------------------------------------------- *)
\* C3: a successful probe at time t stores t + TTL for the key; while that
\* time has not passed (now <= expiration) a request with the key goes on
\* without a probe, and a request that finds the entry expired probes again.
\* Entries are never removed and never moved back.
C3_CachePositivity ==
    /\ [](\A h \in Requests :
            /\ "hit" \in did[h] =>
                  ("probe" \notin did[h] /\ pc[h] # "probe"
                     /\ status[h] # StatusUnauthorized)
            /\ "stale" \in did[h] => "probe" \in did[h])
    /\ [][\A h \in Requests :
            ("probe_ok" \in did'[h] /\ "probe_ok" \notin did[h]) =>
               (key[h] \in DOMAIN cache'
                  /\ cache'[key[h]] = now + AuthCacheDuration)]_vars
    /\ [][\A k \in DOMAIN cache :
            k \in DOMAIN cache' /\ cache'[k] >= cache[k]]_vars

\* after a first successful probe, a request with the same key found the
\* entry expired and its own probe succeeded too
C3_Witness ==
    \E h, g \in Requests :
        /\ h # g /\ key[h] = key[g]
        /\ "probe_ok" \in did[h] /\ "stale" \notin did[h]
        /\ {"stale", "probe_ok"} \subseteq did[g]

(* ---- C4 ---------------------------------------------------------------- *)
\* C4: a failed probe answers 401 and leaves the AuthCache as it was; the
\* request is not counted or sent. A request whose key has no unexpired
\* entry always calls the probe, whatever earlier probes answered.
C4_NoNegativeCaching ==
    /\ [][\A h \in Requests :
            (pc[h] = "probe" /\ "probe_failed" \in did'[h]) =>
               /\ cache' = cache
               /\ pc'[h] = "done"
               /\ status'[h] = StatusUnauthorized
               /\ {"count", "enq", "set"} \cap did'[h] = {}]_vars
    /\ [](\A h \in Requests :
            (pc[h] # "idle" /\ key[h] # "" /\ "hit" \notin did[h])
               => "probe" \in did[h])

\* a probe failed for a key whose expired entry is still in the cache, and
\* an earlier failed probe for that key did not stop this one
C4_Witness ==
    \E h \in Requests :
        /\ {"stale", "probe_failed"} \subseteq did[h]
        /\ key[h] \in DOMAIN cache
        /\ status[h] = StatusUnauthorized

(* ---- C5 ---------------------------------------------------------------- *)
\* C5: a request without API key is answered 401 and nothing else happens
\* for it: no cache access, no probe, no count, no send.
C5_MissingKeyUnauthorized ==
    \A h \in Requests :
        (pc[h] # "idle" /\ key[h] = "") =>
           (pc[h] = "done" /\ status[h] = StatusUnauthorized /\ did[h] = {}
              /\ \A r \in Runners : h \notin cur[r])

\* a request without key was refused while the cache holds an entry
C5_Witness ==
    \E h \in Requests :
        pc[h] = "done" /\ key[h] = "" /\ status[h] = StatusUnauthorized
           /\ DOMAIN cache # {}

(* ---- C6 ---------------------------------------------------------------- *)
OutOfBandEffects == {"oob", "hits", "oob_deny", "event"}

\* C6: for one request, nothing of the out-of-band phase (its evaluation,
\* its histogram, the rule-hit counters, the event) comes before the in-band
\* verdict has been sent on the reply channel of that request.
C6_ReplyBeforeOutOfBand ==
    /\ \A h \in Requests :
          (did[h] \cap OutOfBandEffects # {} \/ h \in events)
             => "reply" \in did[h]
    /\ \A r \in Runners :
          rpc[r] \in {"oob", "emit"} => \A h \in cur[r] : "reply" \in did[h]

\* an event was emitted for a request on an out-of-band match alone
C6_Witness ==
    \E h \in events :
        {"reply", "oob_deny", "event"} \subseteq did[h] /\ "in_deny" \notin did[h]

(* ---- C7 ---------------------------------------------------------------- *)
\* C7 as stated: when the event of a request is at the sink, the handler
\* has written the HTTP response of that request.
C7_ResponseBeforeEvent ==
    \A h \in events : pc[h] = "done" /\ "written" \in did[h]

\* C7, amended: when the event of a request is at the sink, the in-band
\* verdict has been sent, and the handler either has received it and
\* written the response, or finds it in the reply channel and can write the
\* response without waiting for the runner.
C7_VerdictBeforeEvent ==
    \A h \in events :
        \/ pc[h] = "done" /\ {"recv", "written"} \subseteq did[h]
        \/ pc[h] = "wait" /\ Len(respChan[h]) = 1

\* the event is at the sink while the handler has not yet answered
C7_Witness ==
    \E h \in events : pc[h] = "wait" /\ "written" \notin did[h]

(* ---- C8 ---------------------------------------------------------------- *)
Evaluating == UNION {cur[r] : r \in Runners}

\* C8: at most Routines requests are being evaluated, one per runner; a
\* request whose send completed is with a runner (or was), never parked in
\* the channel; every other authenticated request has its handler blocked
\* in the send.
C8_Backpressure ==
    /\ Cardinality(Evaluating) <= Routines
    /\ \A r \in Runners : Cardinality(cur[r]) <= 1
    /\ inChan = << >>
    /\ \A h \in Requests :
          /\ "enq" \in did[h] => (h \in Evaluating \/ "released" \in did[h])
          /\ ("count" \in did[h] /\ "enq" \notin did[h]) => pc[h] = "send"

\* of 2N+1 requests, N are with the N runners and N+1 wait in their send
C8_Witness ==
    /\ Cardinality(Evaluating) = Routines
    /\ Blocked # {}
    /\ Cardinality(Blocked) = Routines + 1

(* ---- C9 ---------------------------------------------------------------- *)
\* C9: when the supervisor has returned, the listeners are closed, every
\* request that was accepted is finished (refused, or answered and released
\* by its runner), and every runner has stopped.
C9_GracefulShutdown ==
    sup = "returned" =>
       /\ ~listening
       /\ \A h \in Requests :
             /\ pc[h] \in {"idle", "done"}
             /\ "enq" \in did[h] => "released" \in did[h]
       /\ \A r \in Runners : rpc[r] = "exited"

(* ---- C10 --------------------------------------------------------------- *)
Draining == sup = "shutting"

\* C10: a handler that is in its send on InChan while the shutdown drains
\* leaves the send only by giving up and answering 503.
C10_SendCancelledByShutdown ==
    [][\A h \in Requests :
          (Draining /\ pc[h] = "send" /\ pc'[h] # "send") =>
             (pc'[h] = "done" /\ status'[h] = 503 /\ "enq" \notin did'[h])]_vars

(* ---- C11 --------------------------------------------------------------- *)
\* the verdict a runner synthesizes after a panic
PanicVerdict ==
    [InBandInterrupt |-> FALSE, code |-> StatusInternalServerError,
     action |-> "allow"]

MaxDisposition(seq) ==
    CHOOSE d \in {seq[i] : i \in 1..Len(seq)} \cup {"allow"} :
        \A i \in 1..Len(seq) : Severity(d) >= Severity(seq[i])

\* C12: while the rules of a phase are matched the disposition of the phase
\* never goes down the order allow < captcha < custom < deny, and unless a
\* PostEval hook has set it directly it is the most severe disposition
\* among the rules that matched.
C12_DispositionMonotonic ==
    /\ [](~overridden => disposition = MaxDisposition(matched))
    /\ [][evalpc' = "rules" =>
            Severity(disposition') >= Severity(disposition)]_vars

\* a phase is over, without override, in which a deny was followed by a
\* weaker match
C12_Witness ==
    /\ evalpc = "final" /\ ~overridden
    /\ matched = <<"captcha", "deny", "custom">>
    /\ disposition = "deny"

(* ---- C13 --------------------------------------------------------------- *)
\* the answered requests whose in-band phase ended in a deny
Interrupted == {h \in Requests : {"written", "in_deny"} \subseteq did[h]}

\* C13: the verdict carries InBandInterrupt exactly when the in-band phase of
\* the request ended in a non-allow disposition; the handler counts one
\* block for each such answer and none for any other; an answer without
\* in-band match is a 200 with action allow and an answer after an in-band
\* deny is a 403 with action deny, whatever the out-of-band phase finds.
C13_InterruptAndStatus ==
    /\ blocks = Cardinality(Interrupted)
    /\ \A h \in Requests :
          /\ respChan[h] # << >> =>
                Head(respChan[h]).InBandInterrupt = ("in_deny" \in did[h])
          /\ "written" \in did[h] =>
                /\ "block" \in did[h] <=> "in_deny" \in did[h]
                /\ "in_deny" \in did[h] =>
                      status[h] = StatusForbidden /\ "body_deny" \in did[h]
                /\ did[h] \cap {"in_deny", "panic"} = {} =>
                      status[h] = StatusOK /\ "body_deny" \notin did[h]

\* one request was denied in band and answered 403, another matched only
\* out of band and was answered 200, and one block has been counted
C13_Witness ==
    \E h, g \in Requests :
        /\ {"written", "in_deny"} \subseteq did[h]
        /\ status[h] = StatusForbidden
        /\ {"written", "oob_deny"} \subseteq did[g] /\ "in_deny" \notin did[g]
        /\ status[g] = StatusOK
        /\ blocks = 1

(* ---- C14 --------------------------------------------------------------- *)
\* a phase of request h reached a non-allow disposition
Matched(h) == did[h] \cap {"in_deny", "oob_deny"} # {}

\* C14: a request of which either phase reached a non-allow disposition
\* leads to an event on the downstream bus, and a request whose phases both
\* ended in allow is released without one.
C14_EventIffMatched ==
    /\ \A h \in SomeRequests : Matched(h) ~> h \in events
    /\ [](\A h \in Requests :
            /\ h \in events => Matched(h)
            /\ ("released" \in did[h] /\ ~Matched(h)) => "event" \notin did[h]
            /\ ("released" \in did[h] /\ Matched(h)) => h \in events)

\* one request matched in band only and has its event, another went
\* through both phases without a match and was released without one
C14_Witness ==
    \E h, g \in Requests :
        /\ "in_deny" \in did[h] /\ "oob_deny" \notin did[h] /\ h \in events
        /\ {"oob", "released"} \subseteq did[g] /\ ~Matched(g)
        /\ g \notin events

(* ---- C15 --------------------------------------------------------------- *)
\* the number of runners the key routines asks for
WantedRunners == IF yaml.Routines = 0 THEN 1 ELSE yaml.Routines

\* C15: Configure never crashes on a value of routines, and once it has
\* succeeded there is at least one runner, as many as routines says with 0
\* read as 1, and StreamingAcquisition starts one task for each.
C15_AtLeastOneRunner ==
    /\ boot # "panic"
    /\ boot \in {"configured", "streaming"} =>
          nrunners >= 1 /\ nrunners = WantedRunners
    /\ boot = "streaming" => tasks = nrunners

(* ---- C16 --------------------------------------------------------------- *)
\* the configuration file is one the design rejects
Invalid(y) ==
    \/ ~y.wellFormed
    \/ y.AppsecConfig = "" /\ y.AppsecConfigPath = ""
    \/ y.AuthCacheDuration # << >> /\ Head(y.AuthCacheDuration) <= 0

\* C16: a configuration file that is malformed, names no rule set, or gives
\* an auth_cache_duration that is not positive is refused by Configure with
\* an error, and then no runner task is started and no listener is opened
\* (stated for the files whose routines is not negative).
C16_InvalidConfigRejected ==
    (boot # "new" /\ Invalid(yaml) /\ yaml.Routines >= 0) =>
        /\ boot = "error"
        /\ tasks = 0
        /\ \A l \in Listeners : lst[l] = "off"

(* ---- C17 --------------------------------------------------------------- *)
\* listener l has failed, the other one was to be opened too and has not
\* failed, and nothing else has killed the tomb
OnlyFailed(l) ==
    /\ lst[l] = "failed"
    /\ reason = "listener"
    /\ \A m \in Listeners \ {l} : Opens(config, m) /\ lst[m] # "failed"

\* C17, as claimed: with both listeners configured the failure of one stays
\* with its task: the other listener goes on serving and no shutdown is
\* begun unless both have failed.
C17_ListenerFailureLocal ==
    \A l \in Listeners : OnlyFailed(l) =>
        /\ sup = "running"
        /\ \A m \in Listeners \ {l} : lst[m] \in {"starting", "serving"}

\* C17, amended: the failure of either listener kills the tomb, so the
\* shutdown begins with the first failure, and once the supervisor has
\* called Shutdown the other listener serves no more.
C17_ListenerFailureKillsTomb ==
    /\ \A l \in Listeners : lst[l] = "failed" => dying
    /\ sup # "running" => \A l \in Listeners : lst[l] # "serving"

\* one listener failed while the other was serving; the shutdown that
\* followed has closed the other
C17_Witness ==
    \E l \in Listeners : \E m \in Listeners \ {l} :
        /\ OnlyFailed(l)
        /\ lst[m] = "closed"
        /\ sup # "running"

(* ---- C18 --------------------------------------------------------------- *)
\* the task of listener l has opened its listener
Opened(l) == lst[l] \in {"serving", "failed", "closed"}

\* the task of listener l is past its test of the configuration
Decided(l) == boot = "streaming" /\ lst[l] # "starting"

\* C18: the TCP listener is opened exactly if listen_addr is not empty once
\* the default is applied, the default is applied only if listen_addr and
\* listen_socket are both empty, and with listen_socket alone the socket
\* listener is opened, its path removed before, and no TCP listener.
C18_ListenersFollowConfig ==
    /\ boot \in {"configured", "streaming"} =>
          config.ListenAddr =
              IF yaml.ListenAddr = "" /\ yaml.ListenSocket = ""
              THEN DefaultListenAddr ELSE yaml.ListenAddr
    /\ Decided("tcp") => (Opened("tcp") <=> config.ListenAddr # "")
    /\ Decided("unix") => (Opened("unix") <=> yaml.ListenSocket # "")
    /\ Opened("unix") => removed
    /\ (yaml.ListenSocket # "" /\ yaml.ListenAddr = "") => ~Opened("tcp")
    /\ boot # "streaming" => \A l \in Listeners : lst[l] = "off"

\* only listen_socket is set: the socket listener serves, its path was
\* removed, and the TCP task has ended without a listener
C18_Witness ==
    /\ yaml.ListenSocket # "" /\ yaml.ListenAddr = ""
    /\ lst["unix"] = "serving" /\ removed
    /\ lst["tcp"] = "off"

(* ---- C19 --------------------------------------------------------------- *)
\* the outermost call has returned without error
Succeeded == dbpc = "done" /\ result # << >> /\ ~Head(result).err

\* C19: DeleteDecisions comes to an end on every list, also on one whose
\* length is the bulk size or a multiple of it, and when it returns without
\* error every listed decision is gone from the database, no other is, and
\* the number it returns is the number of rows removed.
C19_DeleteAll ==
    op = "delete" =>
        /\ dbpc # "overflow"
        /\ Succeeded =>
              /\ table = {ndec + 1}
              /\ Head(result).rows = ndec

(* ---- C20 --------------------------------------------------------------- *)
\* the outermost call has returned an error
Failed == dbpc = "done" /\ result # << >> /\ Head(result).err

\* C20: ExpireDecisions comes to an end on every list; no statement gets
\* more than the bulk size of ids; when it returns without error every
\* listed decision has its expiration set and the number returned is their
\* number; when a statement fails it returns the error with the rows of the
\* chunks updated before, which are whole chunks from the head of the
\* list, and no later chunk is touched.
C20_ExpireAll ==
    /\ [](op = "expire" =>
            /\ dbpc # "overflow"
            /\ maxBulk <= decisionDeleteBulkSize
            /\ table = 1..(ndec + 1)
            /\ Succeeded =>
                  expiredIds = 1..ndec /\ Head(result).rows = ndec
            /\ Failed =>
                  /\ Head(result).rows = Cardinality(expiredIds)
                  /\ \E k \in 0..(ndec \div decisionDeleteBulkSize) :
                        /\ k * decisionDeleteBulkSize < ndec \/ ndec = 0
                        /\ expiredIds = 1..(k * decisionDeleteBulkSize))
    /\ (op = "expire") ~> (dbpc = "done")

\* a list of twice the bulk size: the statement on the second chunk has
\* failed and the call has returned the error with the rows of the first
C20_Witness ==
    /\ op = "expire" /\ ndec = 2 * decisionDeleteBulkSize
    /\ Failed
    /\ Head(result).rows = decisionDeleteBulkSize
    /\ expiredIds = 1..decisionDeleteBulkSize

(* ---- C21 --------------------------------------------------------------- *)
\* the handler of h has returned without a verdict: h was refused
Rejected(h) == pc[h] = "done" /\ "recv" \notin did[h]

\* h is in the buffer of InChan or in the hands of a runner
InFlight(h) ==
    \/ \E i \in 1..Len(inChan) : inChan[i] = h
    \/ \E r \in Runners : h \in cur[r]

\* C21: a request that is refused, with 401 or 500, was never sent on
\* InChan, never in the hands of a runner and never counted; a request that
\* is sent was counted before the send completed, and a handler counts its
\* request when it goes on to the send and at no other time.
C21_RejectedBeforeEnqueue ==
    /\ [](\A h \in Requests :
            /\ Rejected(h) =>
                  /\ status[h] \in {StatusUnauthorized,
                                    StatusInternalServerError}
                  /\ did[h] \cap {"count", "enq", "reply", "oob", "event"} = {}
                  /\ ~InFlight(h)
            /\ "enq" \in did[h] => "count" \in did[h]
            /\ pc[h] \in {"send", "wait"} => "count" \in did[h])
    /\ [][\A h \in Requests :
            /\ ("enq" \in did'[h] /\ "enq" \notin did[h]) => "count" \in did[h]
            /\ ("count" \in did'[h] /\ "count" \notin did[h]) =>
                  (pc[h] \in {"idle", "probe"} /\ pc'[h] \in {"send", "wait"})
            /\ "count" \in did[h] => "count" \in did'[h]]_vars

\* one request was refused with 500 after its key was accepted, another
\* was counted and handed to a runner
C21_Witness ==
    \E h, g \in Requests :
        /\ Rejected(h) /\ status[h] = StatusInternalServerError
        /\ {"count", "enq"} \subseteq did[g]

(* ---- C22 --------------------------------------------------------------- *)
\* request h has been received from InChan by a runner
Taken(h) == (\E r \in Runners : h \in cur[r]) \/ "released" \in did[h]

C23_InChanClosedOnShutdown ==
    /\ sup = "returned" => inChanClosed
    /\ inChanClosed =>
          /\ sup \in {"shutting", "returned"}
          /\ \A h \in Requests : pc[h] \notin {"probe", "send"}
    /\ \A r \in Runners : rpc[r] = "exited" => inChanClosed /\ cur[r] = {}

(* ---- C24 --------------------------------------------------------------- *)
\* C24: the on-load rules run at most once, in Configure and never after;
\* once Configure has succeeded they have run exactly once, and every
\* runner's copy of the runtime was taken after that one run; nothing is
\* started or served before they have run; and when they fail, Configure
\* returns the error with no runner built, and nothing is ever started.
C24_OnLoadOnce ==
    /\ [](/\ onLoadRuns \in {0, 1}
          /\ boot \in {"configured", "streaming"} =>
                /\ onLoadRuns = 1
                /\ \A i \in 1..Len(AppsecRunners) :
                      AppsecRunners[i].AppsecRuntime.onLoadRuns = 1
          /\ (tasks > 0 \/ started # << >>
                \/ \E l \in Listeners : lst[l] # "off") => onLoadRuns = 1
          /\ configErr = "onload" =>
                /\ boot = "error"
                /\ AppsecRunners = << >> /\ nrunners = 0
                /\ tasks = 0 /\ started = << >>
                /\ \A l \in Listeners : lst[l] = "off")
    /\ [][onLoadRuns' # onLoadRuns =>
             boot = "new" /\ onLoadRuns = 0 /\ onLoadRuns' = 1]_vars

\* a datasource with two runners is serving, the on-load rules having run
C24_Witness ==
    /\ boot = "streaming"
    /\ Len(AppsecRunners) = 2
    /\ onLoadRuns = 1
    /\ \A i \in 1..2 : started[i].AppsecRuntime.onLoadRuns = 1
    /\ listening

(* ---- C27 --------------------------------------------------------------- *)
\* C27: StreamingAcquisition starts one runner task per runner that
\* Configure built: the task of position i runs the runner of position i,
\* so that the runners started have pairwise distinct UUIDs and runtime
\* copies, none is started twice and none is left out; each has its
\* outChan set to the sink when its task starts.
C27_OneTaskPerRunner ==
    boot = "streaming" =>
       /\ Len(started) = Len(AppsecRunners)
       /\ tasks = Len(AppsecRunners)
       /\ Len(AppsecRunners) = config.Routines
       /\ \A i \in 1..Len(started) :
             /\ started[i].UUID = AppsecRunners[i].UUID
             /\ started[i].AppsecRuntime = AppsecRunners[i].AppsecRuntime
             /\ started[i].outChan = "out"
       /\ \A i, j \in 1..Len(started) :
             i # j => /\ started[i].UUID # started[j].UUID
                      /\ started[i].AppsecRuntime.copy #
                            started[j].AppsecRuntime.copy

\* two runner tasks have been started
C27_Witness ==
    /\ boot = "streaming"
    /\ Len(started) = 2
    /\ started[1].UUID # started[2].UUID

(* ---- C25 --------------------------------------------------------------- *)
\* the outcome of the in-band phase of request h, as its runner recorded it
InBandOf(h) ==
    IF "panic" \in did[h] THEN "panic"
    ELSE IF "in_deny" \in did[h] THEN "deny" ELSE "allow"

LatestSet(apiKey) ==
    IF apiKey \in DOMAIN lastSet
    THEN [exists |-> TRUE, expiration |-> lastSet[apiKey]]
    ELSE [exists |-> FALSE, expiration |-> 0]

\* C26: the write lock is held by one goroutine at most and never together
\* with a read lock, while read locks do not exclude one another; no lock
\* is held by a goroutine outside Get and Set, in particular not during the
\* probe; a Get returns absent if no Set of its key has completed, and
\* else the expiration of the latest completed Set of that key; and an
\* entry of the map is never removed.
C26_AuthCacheLocking ==
    /\ [](/\ mu.writers # {} =>
                Cardinality(mu.writers) = 1 /\ mu.readers = {}
          /\ mu.writers = {} => CanRLock(mu)
          /\ \A g \in Goroutines :
                /\ g \in mu.readers <=> gpc[g] = "read"
                /\ g \in mu.writers <=> gpc[g] = "write"
                /\ gpc[g] = "probe" => g \notin mu.readers \cup mu.writers)
    /\ [][/\ DOMAIN cache \subseteq DOMAIN cache'
          /\ \A g \in Goroutines :
                (gpc[g] = "read" /\ gpc'[g] # "read") =>
                    gres'[g] = LatestSet(gkey[g])]_vars

\* two goroutines hold the read lock at once, on a map that has an entry,
\* while nobody is probing under a lock
C26_Witness ==
    /\ Cardinality(mu.readers) = 2
    /\ \E g \in mu.readers : gkey[g] \in DOMAIN cache

(* ---- C28 --------------------------------------------------------------- *)
\* C28: QueryExpiredDecisionsWithFilters, given a filter that
\* BuildDecisionRequestWithFilter rejects, returns the empty list and
\* QueryFail, as QueryAllDecisionsWithFilters does, and does not use the
\* query that came back with the error.
C28_ExpiredQueryRejectsFilter ==
    (qpc = "done" /\ qres.kind \in {"all", "expired"}
       /\ BuildErrors(filter) # {}) =>
          /\ qres.list = << >>
          /\ qres.err = "QueryFail"
          /\ ~qres.usedNil

(* ---- C30 --------------------------------------------------------------- *)
\* the rows the query that returned is to give, by its conditions other
\* than the limit
Expected ==
    {i \in DOMAIN store :
        /\ CASE qres.kind = "all"     -> store[i].until > 0
             [] qres.kind = "expired" -> store[i].until < 0
             [] qres.kind = "expired_since" ->
                   /\ store[i].until < 0
                   /\ qres.since # << >> => store[i].until > qres.since[1]
             [] OTHER ->
                   /\ store[i].until > 0
                   /\ qres.since # << >> => CreatedAt(i) > qres.since[1]
        /\ "id_gt" \in DOMAIN filter => i > Atoi(filter["id_gt"])
        /\ "ip" \in DOMAIN filter => store[i].value = filter["ip"]
        /\ ("dedup" \notin DOMAIN filter \/ filter["dedup"] # "false") =>
              \A j \in DOMAIN store :
                 store[j].value = store[i].value =>
                    store[j].until <= store[i].until}

\* C30: a query that succeeds returns its rows by ascending id; unless
\* dedup is "false" none of them has a row of the same triple with a later
\* until anywhere in the table; and the rows returned are those that pass
\* the conditions of the query, all of them unless a limit cuts the list.
C30_LongestPerTriple ==
    (qpc = "done" /\ qres.err = "none") =>
       LET L == qres.list IN
       /\ \A a, b \in 1..Len(L) : a < b => L[a] < L[b]
       /\ \A a \in 1..Len(L) : L[a] \in Expected
       /\ "limit" \notin DOMAIN filter => Len(L) = Cardinality(Expected)
       /\ "limit" \in DOMAIN filter =>
             /\ Len(L) <= Atoi(filter["limit"])
             /\ Len(L) < Atoi(filter["limit"]) =>
                   Len(L) = Cardinality(Expected)
             /\ \A a \in 1..Len(L) : \A i \in Expected : i < L[a] =>
                   \E b \in 1..Len(L) : L[b] = i

\* the query for expired decisions has left out an expired decision, the
\* only one expired, because an active decision of the same triple, which
\* the query does not select, has a later until
C30_Witness ==
    /\ qpc = "done" /\ qres.err = "none" /\ qres.kind = "expired"
    /\ "dedup" \notin DOMAIN filter
    /\ qres.list = << >>
    /\ \E i, j \in DOMAIN store :
          /\ store[i].until < 0 /\ store[j].until > 0
          /\ store[i].value = store[j].value

(* ---- C29 --------------------------------------------------------------- *)
\* C29: ExpireDecisionsWithFilter, on the decisions 1..ndec that match its
\* filter and are active, has changed no decision when it returns an
\* error, with count 0 and no decisions; when it returns without error
\* exactly the matching decisions have their expiration set to now and are
\* the ones returned, the count being their number.
C29_ExpireWithFilterAllOrNothing ==
    (op = "expire" /\ dbpc = "done" /\ result # << >>) =>
       LET w == ExpireDecisionsWithFilterReturn(1..ndec, Head(result)) IN
       /\ w.err # "none" =>
             w.count = 0 /\ w.decisions = {} /\ expiredIds = {}
       /\ w.err = "none" =>
             /\ expiredIds = 1..ndec
             /\ w.decisions = 1..ndec
             /\ w.count = ndec

====
